---- MODULE Spec2Model ----
(***************************************************************************)
(* A model of db/deprecated/transforms/base.py: the Transform classes of   *)
(* the query pipeline (Filter, Order, Limit, Offset, Summarize,            *)
(* HideColumns, SelectSubsetOfColumns), their lineage reports              *)
(* (get_unique_constraint_mappings), the Summarize derivation helpers and  *)
(* the relation canonicalization helpers.                                  *)
(*                                                                         *)
(* Python values are modelled as follows.                                  *)
(*   - an alias is a string; Python's None in an alias position is the     *)
(*     string None below; an SQLAlchemy column expression object given in  *)
(*     a SelectSubsetOfColumns spec is a member of ExprObjects;            *)
(*   - a transform spec is a record with a "tag" field, NoneSpec for None; *)
(*   - a call either returns, Ok(v), or raises, Err(<exception name>);     *)
(*   - a relation is the list of its column names plus the chain of        *)
(*     SQLAlchemy constructs it is built of ("layers"), innermost first;   *)
(*     the outermost construct decides isinstance(.., Selectable) and      *)
(*     isinstance(.., Executable).                                         *)
(***************************************************************************)
EXTENDS Integers, Sequences, FiniteSets, TLC

VARIABLES
    objs,       \* the Transform instances constructed so far (a heap, by index)
    dicts,      \* the spec dicts the Summarize instances of objs refer to
    rel,        \* the relation the driver folds apply_to_relation over
    rel0,       \* the relation the fold started from
    current_aliases,  \* the alias list the lineage analysis folds over
    initial_aliases,  \* the alias list the lineage fold started from
    roots,      \* per element of aliases: the alias its input_alias chain ends in
    inside,     \* whether every step so far named only available aliases
    steps,      \* the number of calls made so far
    last        \* the last call: its arguments and its outcome

vars == <<objs, dicts, rel, rel0, current_aliases, initial_aliases, roots, inside, steps, last>>

---------------------------------------------------------------------------
(* Bounds of the model *)

\* the number of columns of the base table, and the length of an initial alias list
MaxCols == 2
\* the number of calls in one run
MaxSteps == 2
\* the number of Transform instances on the heap
MaxObjs == 3

---------------------------------------------------------------------------
(* Python values *)

None == "<None>"
NoneSpec == [tag |-> "None"]

Ok(v) == [ok |-> TRUE, val |-> v]
Err(e) == [ok |-> FALSE, err |-> e]

NoCall == [op |-> "none"]

\* the column names of the base tables: a table of n columns has the first n
AliasSeq == <<"a", "b", "c", "d", "e">>
\* the aliases the specs and the initial alias lists are written with
Aliases == {"a", "b", "c"}

\* the aliases a lineage fold starts from
InitialAliases == {"a", "b"}

\* a pre-built column expression, as in SelectSubsetOfColumns(count(1).label("_count"))
ExprObjects == {"<count(1) AS _count>"}
ExprName(e) == "_count"

\* the name SQLAlchemy gives to an expression labelled with None
AnonLabel == "<anon>"

Range(s) == {s[i] : i \in DOMAIN s}

SeqsUpTo(S, n) == UNION {[1..k -> S] : k \in 0..n}

Prefix(s, n) == [i \in 1..n |-> s[i]]

RECURSIVE Without(_, _)
\* [x for x in s if x not in hidden]
Without(s, hidden) ==
    IF s = <<>> THEN <<>>
    ELSE IF Head(s) \in hidden THEN Without(Tail(s), hidden)
         ELSE <<Head(s)>> \o Without(Tail(s), hidden)

---------------------------------------------------------------------------
(* Relations *)

SelectKinds == {"select", "where", "order_by", "limit", "offset", "group_by"}

Top(relation) == relation.layers[Len(relation.layers)]

\* isinstance(relation, sqlalchemy.sql.expression.Selectable)
IsSelectable(relation) == Top(relation) \in SelectKinds \cup {"table", "cte"}

\* isinstance(relation, sqlalchemy.sql.expression.Executable)
IsExecutable(relation) == Top(relation) \in SelectKinds \cup {"text"}

Wrap(relation, kind) == [relation EXCEPT !.layers = Append(@, kind)]

\* sqlalchemy.select(relation): a Select over the columns of relation
select(relation) == Wrap(relation, "select")

\* Select.cte(): a named CTE over the statement, with its columns
cte(relation) == Wrap(relation, "cte")

Table(n) == [cols |-> Prefix(AliasSeq, n), layers |-> <<"table">>]

\* what a caller may hand over: a table, a statement over it, a text clause
\* (Executable, not Selectable), an object that is no SQL construct at all
InitialRelations ==
    {Table(n) : n \in 0..MaxCols}
    \cup {select(Table(n)) : n \in 1..MaxCols}
    \cup {[cols |-> <<>>, layers |-> <<"text">>],
          [cols |-> <<>>, layers |-> <<"object">>]}

\* a variant that wraps without looking at the form of its argument
_to_executable_always_wraps(relation) ==
    IF ~IsSelectable(relation) THEN Err("AssertionError")
    ELSE Ok(select(relation))

_to_executable(relation) ==
    IF ~IsSelectable(relation) THEN Err("AssertionError")
    ELSE IF IsExecutable(relation) THEN Ok(relation)
    ELSE Ok(select(relation))

\* a variant that forgets to demote a statement
_to_non_executable_no_cte(relation) ==
    IF ~IsSelectable(relation) THEN Err("AssertionError")
    ELSE Ok(relation)

_to_non_executable(relation) ==
    IF ~IsSelectable(relation) THEN Err("AssertionError")
    ELSE IF IsExecutable(relation) THEN Ok(cte(relation))
    ELSE Ok(relation)

enforce_relation_type_expectations(relation) ==
    IF ~IsSelectable(relation) THEN Err("AssertionError")
    ELSE IF IsExecutable(relation) THEN Err("AssertionError")
    ELSE Ok(None)

\* the form every transform boundary expects
IsCanonical(relation) == IsSelectable(relation) /\ ~IsExecutable(relation)

---------------------------------------------------------------------------
(* Collaborators outside base.py *)

\* db.deprecated.functions.operations.apply.apply_db_function_spec_as_filter:
\* given an executable and a filter descriptor, the filtered executable
apply_db_function_spec_as_filter(executable, filter) ==
    Ok(Wrap(executable, "where"))

\* db.deprecated.sort.apply_relation_sorting: the sorted statement over relation
apply_relation_sorting(relation, order_by) ==
    Ok(Wrap(select(relation), "order_by"))

\* what db.deprecated.sort.make_order_by_deterministic may hand back for a
\* given order_by: the augmented list, or None
DeterministicOrderBys(order_by) ==
    {NoneSpec, [tag |-> "order", keys |-> <<"a", "id">>]}

\* DistinctArrayAgg.id
DistinctArrayAgg_id == "distinct_aggregate_to_array"

\* apply_db_function_by_id: the expression id(column)
apply_db_function_by_id(id, column) == Ok(column)

---------------------------------------------------------------------------
(* Python helpers *)

\* d[k]
Subscript(d, k) == IF k \in DOMAIN d THEN Ok(d[k]) ELSE Err("KeyError")

\* d.get(k, default)
DictGet(d, k, default) == IF k \in DOMAIN d THEN d[k] ELSE default

\* a list comprehension over calls: the first exception raised, or the list
Collect(results) ==
    IF \E i \in DOMAIN results : ~results[i].ok
    THEN results[CHOOSE i \in DOMAIN results :
                    /\ ~results[i].ok
                    /\ \A j \in 1..(i - 1) : results[j].ok]
    ELSE Ok([i \in DOMAIN results |-> results[i].val])

\* relation.columns[name] (attr = "columns") and relation.c[name] (attr = "c"):
\* a TextClause has a method named columns and no attribute c
ColumnLookup(relation, attr, name) ==
    IF ~IsSelectable(relation)
    THEN IF Top(relation) = "text" /\ attr = "columns"
         THEN Err("TypeError") ELSE Err("AttributeError")
    ELSE IF name \in Range(relation.cols) THEN Ok(name)
    ELSE Err("KeyError")

\* [col.name for col in relation.c]
ColumnNames(relation) ==
    IF ~IsSelectable(relation) THEN Err("AttributeError") ELSE Ok(relation.cols)

\* expression.label(name)
Label(name) == IF name = None THEN AnonLabel ELSE name

---------------------------------------------------------------------------
(* class UniqueConstraintMapping, class Transform *)

UniqueConstraintMapping(input_alias, output_alias) ==
    [input_alias |-> input_alias, output_alias |-> output_alias]

\* a constructor that stores whatever spec it is given
Transform__init__unchecked(type, spec) ==
    IF type = None THEN Err("ValueError")
    ELSE Ok([type |-> type, spec |-> spec])

Transform__init__(type, spec) ==
    IF type = None THEN Err("ValueError")
    ELSE IF spec.tag = "None" THEN Err("ValueError")
    ELSE Ok([type |-> type, spec |-> spec])

\* a default that does not carry the input alias over
Transform_get_unique_constraint_mappings_no_input(input_aliases) ==
    Ok([i \in DOMAIN input_aliases |->
            UniqueConstraintMapping(None, input_aliases[i])])

\* the default: each input alias maps to an identically named output alias
Transform_get_unique_constraint_mappings(input_aliases) ==
    Ok([i \in DOMAIN input_aliases |->
            UniqueConstraintMapping(input_aliases[i], input_aliases[i])])

---------------------------------------------------------------------------
(* class Filter, class Order, class Limit, class Offset *)

Filter_apply_to_relation(spec, relation) ==
    LET checked == enforce_relation_type_expectations(relation)
        executable == _to_executable(relation)
        filtered == IF spec.tag # "None"
                    THEN apply_db_function_spec_as_filter(executable.val, spec)
                    ELSE executable
    IN  IF ~checked.ok THEN checked
        ELSE IF ~executable.ok THEN executable
        ELSE IF ~filtered.ok THEN filtered
        ELSE _to_non_executable(filtered.val)

\* order_by is what make_order_by_deterministic(relation, self.spec) returned
Order_apply_to_relation(spec, relation, order_by) ==
    LET checked == enforce_relation_type_expectations(relation)
        executable == IF order_by.tag # "None"
                      THEN apply_relation_sorting(relation, order_by)
                      ELSE _to_executable(relation)
    IN  IF ~checked.ok THEN checked
        ELSE IF ~executable.ok THEN executable
        ELSE _to_non_executable(executable.val)

Limit_apply_to_relation(spec, relation) ==
    LET executable == _to_executable(relation)
    IN  IF ~executable.ok THEN executable
        ELSE _to_non_executable(Wrap(executable.val, "limit"))

Offset_apply_to_relation(spec, relation) ==
    LET executable == _to_executable(relation)
    IN  IF ~executable.ok THEN executable
        ELSE _to_non_executable(Wrap(executable.val, "offset"))

---------------------------------------------------------------------------
(* class Summarize *)

Summarize__grouping_col_specs(spec) == DictGet(spec.d, "grouping_expressions", <<>>)

Summarize_aggregation_col_specs(spec) == DictGet(spec.d, "aggregation_expressions", <<>>)

\* the name of the labelled grouping expression
_get_grouping_column(relation, col_spec) ==
    LET preproc_db_function_subclass_id == DictGet(col_spec, "preproc", None)
        input_alias == Subscript(col_spec, "input_alias")
        output_alias == Subscript(col_spec, "output_alias")
        column == ColumnLookup(relation, "columns", input_alias.val)
        sa_expression == IF preproc_db_function_subclass_id # None
                         THEN apply_db_function_by_id(
                                  preproc_db_function_subclass_id, column.val)
                         ELSE column
    IN  IF ~input_alias.ok THEN input_alias
        ELSE IF ~output_alias.ok THEN output_alias
        ELSE IF ~column.ok THEN column
        ELSE IF ~sa_expression.ok THEN sa_expression
        ELSE Ok(Label(output_alias.val))

\* the name of the labelled aggregation expression
_get_aggregation_column(relation, col_spec) ==
    LET input_alias == Subscript(col_spec, "input_alias")
        output_alias == Subscript(col_spec, "output_alias")
        agg_db_function_subclass_id == Subscript(col_spec, "function")
        column_to_aggregate == ColumnLookup(relation, "columns", input_alias.val)
        sa_expression == apply_db_function_by_id(
                             agg_db_function_subclass_id.val, column_to_aggregate.val)
    IN  IF ~input_alias.ok THEN input_alias
        ELSE IF ~output_alias.ok THEN output_alias
        ELSE IF ~agg_db_function_subclass_id.ok THEN agg_db_function_subclass_id
        ELSE IF ~column_to_aggregate.ok THEN column_to_aggregate
        ELSE IF ~sa_expression.ok THEN sa_expression
        ELSE Ok(Label(output_alias.val))

Summarize_apply_to_relation(spec, relation) ==
    LET g == Summarize__grouping_col_specs(spec)
        a == Summarize_aggregation_col_specs(spec)
        grouping_expressions ==
            Collect([i \in DOMAIN g |-> _get_grouping_column(relation, g[i])])
        aggregation_expressions ==
            Collect([i \in DOMAIN a |-> _get_aggregation_column(relation, a[i])])
        columns == grouping_expressions.val \o aggregation_expressions.val
        \* select(*grouping, *aggregation).group_by(*grouping): a statement over
        \* the relation its columns come from
        executable ==
            [cols |-> columns,
             layers |-> IF columns = <<>> THEN <<"group_by">>
                        ELSE Append(relation.layers, "group_by")]
    IN  IF ~grouping_expressions.ok THEN grouping_expressions
        ELSE IF ~aggregation_expressions.ok THEN aggregation_expressions
        ELSE _to_non_executable(executable)

\* a lineage that lets aggregation outputs inherit from the aggregated column
Summarize_get_unique_constraint_mappings_agg_inherits(spec) ==
    LET g == Summarize__grouping_col_specs(spec)
        a == Summarize_aggregation_col_specs(spec)
    IN  Ok([i \in DOMAIN g |->
               UniqueConstraintMapping(g[i].input_alias, g[i].output_alias)]
           \o [i \in DOMAIN a |->
               UniqueConstraintMapping(a[i].input_alias, a[i].output_alias)])

Summarize_get_unique_constraint_mappings(spec) ==
    LET g == Summarize__grouping_col_specs(spec)
        a == Summarize_aggregation_col_specs(spec)
        input_of(col_spec) == Subscript(col_spec, "input_alias")
        output_of(col_spec) == Subscript(col_spec, "output_alias")
        mappings_that_carry_uniqueness_over ==
            Collect([i \in DOMAIN g |->
                IF ~input_of(g[i]).ok THEN input_of(g[i])
                ELSE IF ~output_of(g[i]).ok THEN output_of(g[i])
                ELSE Ok(UniqueConstraintMapping(input_of(g[i]).val,
                                                output_of(g[i]).val))])
        mappings_that_dont_carry_uniqueness_over ==
            Collect([i \in DOMAIN a |->
                IF ~output_of(a[i]).ok THEN output_of(a[i])
                ELSE Ok(UniqueConstraintMapping(None, output_of(a[i]).val))])
    IN  IF ~mappings_that_carry_uniqueness_over.ok
        THEN mappings_that_carry_uniqueness_over
        ELSE IF ~mappings_that_dont_carry_uniqueness_over.ok
        THEN mappings_that_dont_carry_uniqueness_over
        ELSE Ok(mappings_that_carry_uniqueness_over.val
                \o mappings_that_dont_carry_uniqueness_over.val)

Summarize_grouping_output_aliases(spec) ==
    LET g == Summarize__grouping_col_specs(spec)
    IN  Collect([i \in DOMAIN g |-> Subscript(g[i], "output_alias")])

Summarize_aggregation_output_aliases(spec) ==
    LET a == Summarize_aggregation_col_specs(spec)
    IN  Collect([i \in DOMAIN a |-> Subscript(a[i], "output_alias")])

Summarize_grouping_input_aliases(spec) ==
    LET g == Summarize__grouping_col_specs(spec)
    IN  Collect([i \in DOMAIN g |-> Subscript(g[i], "input_alias")])

---------------------------------------------------------------------------
(* class SelectSubsetOfColumns, class HideColumns *)

\* self.spec or []
SelectSubsetOfColumns__raw_columns_to_select(spec) ==
    IF spec.items = <<>> THEN <<>> ELSE spec.items

\* the name of the column expression raw_col stands for
_make_sure_sa_col_expr(raw_col, relation) ==
    IF raw_col \notin ExprObjects
    THEN ColumnLookup(relation, "c", raw_col)
    ELSE Ok(ExprName(raw_col))

SelectSubsetOfColumns__get_sa_columns_to_select(spec, relation) ==
    LET raw == SelectSubsetOfColumns__raw_columns_to_select(spec)
    IN  Collect([i \in DOMAIN raw |-> _make_sure_sa_col_expr(raw[i], relation)])

SelectSubsetOfColumns_apply_to_relation(spec, relation) ==
    LET sa_columns_to_select ==
            SelectSubsetOfColumns__get_sa_columns_to_select(spec, relation)
    IN  IF ~sa_columns_to_select.ok THEN sa_columns_to_select
        ELSE IF sa_columns_to_select.val # <<>>
        THEN \* select(*columns).select_from(relation)
             IF ~IsSelectable(relation) THEN Err("ArgumentError")
             ELSE _to_non_executable(
                      [cols |-> sa_columns_to_select.val,
                       layers |-> Append(relation.layers, "select")])
        ELSE Ok(relation)

SelectSubsetOfColumns_get_unique_constraint_mappings(spec) ==
    LET column_names_to_select == SelectSubsetOfColumns__raw_columns_to_select(spec)
    IN  Ok([i \in DOMAIN column_names_to_select |->
               UniqueConstraintMapping(column_names_to_select[i],
                                       column_names_to_select[i])])

HideColumns__columns_to_hide(spec) == spec.items

HideColumns_get_columns_to_select(spec, input_aliases) ==
    Without(input_aliases, HideColumns__columns_to_hide(spec))

HideColumns_apply_to_relation(spec, relation) ==
    LET input_aliases == ColumnNames(relation)
        columns_to_select == HideColumns_get_columns_to_select(spec, input_aliases.val)
        select_transform ==
            Transform__init__("select", [tag |-> "list", items |-> columns_to_select])
    IN  IF ~input_aliases.ok THEN input_aliases
        ELSE IF ~select_transform.ok THEN select_transform
        ELSE SelectSubsetOfColumns_apply_to_relation(select_transform.val.spec, relation)

\* a variant that reads the columns of the base table, not the aliases it is given
HideColumns_get_unique_constraint_mappings_of_table(spec, input_aliases) ==
    LET columns_to_select == HideColumns_get_columns_to_select(spec, AliasSeq)
    IN  Ok([i \in DOMAIN columns_to_select |->
               UniqueConstraintMapping(columns_to_select[i], columns_to_select[i])])

HideColumns_get_unique_constraint_mappings(spec, input_aliases) ==
    LET columns_to_select == HideColumns_get_columns_to_select(spec, input_aliases)
    IN  Ok([i \in DOMAIN columns_to_select |->
               UniqueConstraintMapping(columns_to_select[i], columns_to_select[i])])

---------------------------------------------------------------------------
(* Method dispatch on the class of the instance *)

apply_to_relation(t, relation, order_by) ==
    CASE t.type = "filter" -> Filter_apply_to_relation(t.spec, relation)
      [] t.type = "order" -> Order_apply_to_relation(t.spec, relation, order_by)
      [] t.type = "limit" -> Limit_apply_to_relation(t.spec, relation)
      [] t.type = "offset" -> Offset_apply_to_relation(t.spec, relation)
      [] t.type = "summarize" -> Summarize_apply_to_relation(t.spec, relation)
      [] t.type = "hide" -> HideColumns_apply_to_relation(t.spec, relation)
      [] t.type = "select" -> SelectSubsetOfColumns_apply_to_relation(t.spec, relation)

get_unique_constraint_mappings(t, input_aliases) ==
    CASE t.type = "summarize" -> Summarize_get_unique_constraint_mappings(t.spec)
      [] t.type = "hide" ->
            HideColumns_get_unique_constraint_mappings(t.spec, input_aliases)
      [] t.type = "select" ->
            SelectSubsetOfColumns_get_unique_constraint_mappings(t.spec)
      [] OTHER -> Transform_get_unique_constraint_mappings(input_aliases)

get_output_aliases(t, input_aliases) ==
    LET uc_mappings == get_unique_constraint_mappings(t, input_aliases)
    IN  IF ~uc_mappings.ok THEN uc_mappings
        ELSE Ok([i \in DOMAIN uc_mappings.val |-> uc_mappings.val[i].output_alias])

---------------------------------------------------------------------------
(* The specs the transforms are constructed with *)

GroupingItem(i, o, p) == [input_alias |-> i, output_alias |-> o, preproc |-> p]

AggregationItem(i, o) ==
    [input_alias |-> i, output_alias |-> o, function |-> DistinctArrayAgg_id]

\* grouping items have the shape the docstring of Summarize gives them: the
\* output_alias key is there, its value may be None
GroupingLists ==
    {<<>>,
     <<GroupingItem("a", "a1", None)>>,
     <<GroupingItem("a", None, None)>>,
     <<GroupingItem("c", "c1", "truncate_to_month")>>,
     <<GroupingItem("a", "a", None), GroupingItem("b", "b1", None)>>}

AggregationLists == {<<>>, <<AggregationItem("b", "b2")>>}

SummarizeDict(g, a) ==
    [tag |-> "dict",
     d |-> [base_grouping_column |-> "a",
            grouping_expressions |-> g,
            aggregation_expressions |-> a]]

\* a spec that has neither expression list
BareSummarizeDict == [tag |-> "dict", d |-> [base_grouping_column |-> "a"]]

FilterSpecs == {NoneSpec, [tag |-> "filter", id |-> "equal"]}

OrderSpecs == {NoneSpec, [tag |-> "order", keys |-> <<"a">>]}

CountSpecs == {NoneSpec, [tag |-> "int", n |-> 5]}

SummarizeSpecs ==
    {NoneSpec, BareSummarizeDict}
    \cup {SummarizeDict(g, a) : g \in GroupingLists, a \in AggregationLists}

HideSpecs == {NoneSpec} \cup {[tag |-> "set", items |-> H] : H \in SUBSET Aliases}

SelectSpecs ==
    {NoneSpec}
    \cup {[tag |-> "list", items |-> c] :
            c \in {<<>>, <<"a">>, <<"b", "a">>, <<"c">>,
                   <<"<count(1) AS _count>">>, <<"a", "<count(1) AS _count>">>}}

---------------------------------------------------------------------------
(* The driver: apply_to_relation folded over a sequence of transforms *)

\* construct a transform of the class and hand it the current relation
Apply(type, spec, order_by) ==
    LET t == Transform__init__(type, spec)
        out == IF t.ok THEN apply_to_relation(t.val, rel, order_by) ELSE t
    IN  /\ steps' = steps + 1
        /\ last' = [op |-> "apply_to_relation", type |-> type, spec |-> spec,
                    constructed |-> t.ok, in |-> rel, out |-> out]
        /\ rel' = IF out.ok THEN out.val ELSE rel
        /\ UNCHANGED <<objs, dicts, rel0, current_aliases, initial_aliases, roots, inside>>

ApplyFilter ==
    /\ steps < MaxSteps
    /\ \E spec \in FilterSpecs : Apply("filter", spec, NoneSpec)

ApplyOrder ==
    /\ steps < MaxSteps
    /\ \E spec \in OrderSpecs : \E order_by \in DeterministicOrderBys(spec) :
           Apply("order", spec, order_by)

ApplyLimit ==
    /\ steps < MaxSteps
    /\ \E spec \in CountSpecs : Apply("limit", spec, NoneSpec)

ApplyOffset ==
    /\ steps < MaxSteps
    /\ \E spec \in CountSpecs : Apply("offset", spec, NoneSpec)

ApplySummarize ==
    /\ steps < MaxSteps
    /\ \E spec \in SummarizeSpecs : Apply("summarize", spec, NoneSpec)

ApplyHideColumns ==
    /\ steps < MaxSteps
    /\ \E spec \in HideSpecs : Apply("hide", spec, NoneSpec)

ApplySelectSubsetOfColumns ==
    /\ steps < MaxSteps
    /\ \E spec \in SelectSpecs : Apply("select", spec, NoneSpec)

\* a direct call of a canonicalization helper on the current relation
CallHelper(name, out) ==
    /\ steps' = steps + 1
    /\ last' = [op |-> name, in |-> rel, out |-> out]
    /\ UNCHANGED <<objs, dicts, rel, rel0, current_aliases, initial_aliases, roots, inside>>

CallToExecutable ==
    /\ steps < MaxSteps
    /\ CallHelper("_to_executable", _to_executable(rel))

CallToNonExecutable ==
    /\ steps < MaxSteps
    /\ CallHelper("_to_non_executable", _to_non_executable(rel))

CallEnforce ==
    /\ steps < MaxSteps
    /\ CallHelper("enforce_relation_type_expectations",
                  enforce_relation_type_expectations(rel))

InitPipeline ==
    /\ rel \in InitialRelations
    /\ rel0 = rel
    /\ steps = 0
    /\ last = NoCall
    /\ objs = <<>>
    /\ dicts = <<>>
    /\ current_aliases = <<>>
    /\ initial_aliases = <<>>
    /\ roots = <<>>
    /\ inside = TRUE

NextPipeline ==
    \/ ApplyFilter
    \/ ApplyOrder
    \/ ApplyLimit
    \/ ApplyOffset
    \/ ApplySummarize
    \/ ApplyHideColumns
    \/ ApplySelectSubsetOfColumns
    \/ CallToExecutable
    \/ CallToNonExecutable
    \/ CallEnforce

SpecPipeline == InitPipeline /\ [][NextPipeline]_vars

---------------------------------------------------------------------------
(* Properties of the pipeline *)

Applied == last.op = "apply_to_relation" /\ last.constructed

\* C4: every transform variant, SelectSubsetOfColumns with an empty spec
\* included, maps a selectable, non-executable relation to a selectable,
\* non-executable relation whenever it returns one; so a fold that starts from a
\* non-executable relation hands a non-executable relation to every step and
\* ends in one.
C4_CanonicalFormPreserved ==
    /\ (Applied /\ IsCanonical(last.in) /\ last.out.ok) => IsCanonical(last.out.val)
    /\ IsCanonical(rel0) => IsCanonical(rel)
    /\ (Applied /\ IsCanonical(rel0)) => IsCanonical(last.in)

\* a second step of a fold from a table, made by SelectSubsetOfColumns([])
C4_Witness ==
    /\ Applied
    /\ steps = 2
    /\ IsCanonical(rel0)
    /\ last.type = "select"
    /\ last.spec.items = <<>>
    /\ last.out.ok
    /\ Len(last.in.layers) > 1

\* C5: every transform variant refuses a relation that is executable or is not
\* a selectable.
C5_RejectsNonCanonicalInput ==
    (Applied /\ ~IsCanonical(last.in)) => ~last.out.ok

\* C7: the columns of HideColumns.apply_to_relation(R) are exactly
\* get_columns_to_select of the columns of R, also when every column is hidden.
C7_HideColumnsAppliesWhatItReports ==
    (Applied /\ last.type = "hide" /\ last.out.ok)
        => last.out.val.cols = HideColumns_get_columns_to_select(last.spec, last.in.cols)

\* C9: _to_non_executable and _to_executable are idempotent on selectables; on a
\* non-executable relation _to_non_executable is the identity, and
\* _to_executable followed by _to_non_executable gives a non-executable relation
\* with the same column names.
C9_CanonicalizationRoundTrips ==
    /\ (last.op \in {"_to_executable", "_to_non_executable"} /\ IsSelectable(last.in))
           => last.out.ok
    /\ (last.op = "_to_non_executable" /\ last.out.ok)
           => /\ _to_non_executable(last.out.val) = last.out
              /\ IsCanonical(last.out.val)
              /\ last.out.val.cols = last.in.cols
    /\ (last.op = "_to_executable" /\ last.out.ok)
           => _to_executable(last.out.val) = last.out
    /\ (last.op = "_to_executable" /\ IsCanonical(last.in))
           => LET back == _to_non_executable(last.out.val)
              IN  /\ back.ok
                  /\ IsCanonical(back.val)
                  /\ back.val.cols = last.in.cols
    /\ (last.op = "_to_non_executable" /\ IsCanonical(last.in))
           => last.out = Ok(last.in)

\* _to_executable called on the non-executable result of an earlier transform
C9_Witness ==
    /\ last.op = "_to_executable"
    /\ IsCanonical(last.in)
    /\ Top(last.in) = "cte"
    /\ last.in.cols # <<>>
    /\ last.out.ok
    /\ IsExecutable(last.out.val)

---------------------------------------------------------------------------
(* The lineage analysis: get_unique_constraint_mappings folded over a       *)
(* sequence of transforms, each step's output aliases the next step's input *)

\* a link to an alias that is not among the aliases the step was given
Unavailable == "<unavailable>"

\* where the chain of input_alias links of a record ends
RootOf(input_alias) ==
    IF input_alias = None THEN None
    ELSE IF input_alias \in Range(current_aliases)
    THEN roots[CHOOSE i \in DOMAIN current_aliases :
                  /\ current_aliases[i] = input_alias
                  /\ \A j \in 1..(i - 1) : current_aliases[j] # input_alias]
    ELSE Unavailable

\* the aliases the spec of a transform names as inputs
NamedInputs(type, spec) ==
    CASE type = "summarize" ->
            LET g == DictGet(spec.d, "grouping_expressions", <<>>)
            IN  {g[i].input_alias : i \in DOMAIN g}
      [] type = "select" -> Range(spec.items)
      [] OTHER -> {}

\* construct a transform of the class and ask it for its lineage records
Lineage(type, spec) ==
    LET t == Transform__init__(type, spec)
        m == IF t.ok THEN get_unique_constraint_mappings(t.val, current_aliases) ELSE t
        o == IF t.ok THEN get_output_aliases(t.val, current_aliases) ELSE t
    IN  /\ steps' = steps + 1
        /\ last' = [op |-> "get_unique_constraint_mappings", type |-> type,
                    spec |-> spec, constructed |-> t.ok, in |-> current_aliases,
                    out |-> m, output_aliases |-> o]
        /\ current_aliases' = IF o.ok THEN o.val ELSE current_aliases
        /\ roots' = IF m.ok /\ o.ok
                    THEN [i \in DOMAIN m.val |-> RootOf(m.val[i].input_alias)]
                    ELSE roots
        /\ inside' = (inside /\ (t.ok => NamedInputs(type, spec) \subseteq Range(current_aliases)))
        /\ UNCHANGED <<objs, dicts, rel, rel0, initial_aliases>>

LineageFilter ==
    /\ steps < MaxSteps
    /\ \E spec \in FilterSpecs : Lineage("filter", spec)

LineageOrder ==
    /\ steps < MaxSteps
    /\ \E spec \in OrderSpecs : Lineage("order", spec)

LineageLimit ==
    /\ steps < MaxSteps
    /\ \E spec \in CountSpecs : Lineage("limit", spec)

LineageOffset ==
    /\ steps < MaxSteps
    /\ \E spec \in CountSpecs : Lineage("offset", spec)

LineageSummarize ==
    /\ steps < MaxSteps
    /\ \E spec \in SummarizeSpecs : Lineage("summarize", spec)

LineageHideColumns ==
    /\ steps < MaxSteps
    /\ \E spec \in HideSpecs : Lineage("hide", spec)

LineageSelectSubsetOfColumns ==
    /\ steps < MaxSteps
    /\ \E spec \in SelectSpecs : Lineage("select", spec)

InitLineage ==
    /\ current_aliases \in SeqsUpTo(InitialAliases, MaxCols)
    /\ initial_aliases = current_aliases
    /\ roots = current_aliases
    /\ inside = TRUE
    /\ steps = 0
    /\ last = NoCall
    /\ objs = <<>>
    /\ dicts = <<>>
    /\ rel = Table(0)
    /\ rel0 = Table(0)

NextLineage ==
    \/ LineageFilter
    \/ LineageOrder
    \/ LineageLimit
    \/ LineageOffset
    \/ LineageSummarize
    \/ LineageHideColumns
    \/ LineageSelectSubsetOfColumns

SpecLineage == InitLineage /\ [][NextLineage]_vars

---------------------------------------------------------------------------
(* Properties of the lineage *)

Asked == last.op = "get_unique_constraint_mappings" /\ last.constructed

DefaultLineage == {"filter", "order", "limit", "offset"}

\* C2: Summarize reports one record per grouping item, in order, with the
\* input_alias and output_alias of the item, then one record per aggregation
\* item, in order, with input_alias None and the output_alias of the item.
C2_SummarizeLineageRule ==
    (Asked /\ last.type = "summarize")
        => LET g == DictGet(last.spec.d, "grouping_expressions", <<>>)
               a == DictGet(last.spec.d, "aggregation_expressions", <<>>)
           IN  /\ last.out.ok
               /\ Len(last.out.val) = Len(g) + Len(a)
               /\ \A i \in 1..Len(g) :
                      /\ last.out.val[i].input_alias = g[i].input_alias
                      /\ last.out.val[i].output_alias = g[i].output_alias
               /\ \A j \in 1..Len(a) :
                      /\ last.out.val[Len(g) + j].input_alias = None
                      /\ last.out.val[Len(g) + j].output_alias = a[j].output_alias

\* the example of the specification: one grouping item a -> a1, one
\* aggregation item on b, asked with the aliases a, b
C2_Witness ==
    /\ Asked
    /\ last.type = "summarize"
    /\ last.in = <<"a", "b">>
    /\ last.out.ok
    /\ Len(last.out.val) = 2
    /\ last.out.val[1] = [input_alias |-> "a", output_alias |-> "a1"]
    /\ last.out.val[2].input_alias = None

\* C3: a grouping item whose output_alias is None is reported, by
\* get_unique_constraint_mappings and by grouping_output_aliases, under its
\* input_alias, so that no lineage record has a null output_alias.
C3_OutputAliasDefaultsToInputAlias ==
    (Asked /\ last.type = "summarize" /\ last.out.ok)
        => LET g == DictGet(last.spec.d, "grouping_expressions", <<>>)
               names == Summarize_grouping_output_aliases(last.spec)
           IN  /\ \A i \in 1..Len(g) :
                      g[i].output_alias = None
                          => /\ last.out.val[i].output_alias = g[i].input_alias
                             /\ names.ok
                             /\ names.val[i] = g[i].input_alias
               /\ \A i \in DOMAIN last.out.val : last.out.val[i].output_alias # None

\* C8: Filter, Order, Limit and Offset report, for any alias list A, one record
\* per element of A, in order, with input_alias = output_alias = the element,
\* and get_output_aliases(A) = A; for every variant get_output_aliases is the
\* list of the output_alias fields of get_unique_constraint_mappings.
C8_DefaultLineageIsIdentity ==
    /\ (Asked /\ last.type \in DefaultLineage)
           => /\ last.out.ok
              /\ Len(last.out.val) = Len(last.in)
              /\ \A i \in DOMAIN last.in :
                     /\ last.out.val[i].input_alias = last.in[i]
                     /\ last.out.val[i].output_alias = last.in[i]
              /\ last.output_aliases = Ok(last.in)
    /\ (Asked /\ last.out.ok)
           => /\ last.output_aliases.ok
              /\ Len(last.output_aliases.val) = Len(last.out.val)
              /\ \A i \in DOMAIN last.out.val :
                     last.output_aliases.val[i] = last.out.val[i].output_alias

\* a default-lineage transform asked with a list that repeats an alias
C8_Witness ==
    /\ Asked
    /\ last.type \in DefaultLineage
    /\ Len(last.in) = 2
    /\ last.in[1] = last.in[2]
    /\ last.output_aliases = Ok(last.in)

\* C10 as stated: every record with a non-null input_alias has an input_alias
\* among the aliases the transform was given, and every alias at the end of a
\* fold whose chain of links is unbroken goes back to an initial alias.
C10_LineageStaysInsideAvailableAliases ==
    /\ (Asked /\ last.out.ok)
           => \A i \in DOMAIN last.out.val :
                  last.out.val[i].input_alias # None
                      => last.out.val[i].input_alias \in Range(last.in)
    /\ \A i \in DOMAIN roots : roots[i] # None => roots[i] \in Range(initial_aliases)

\* C10 as amended: the same, for Filter, Order, Limit, Offset and HideColumns,
\* and for a Summarize or SelectSubsetOfColumns whose spec names only aliases it
\* is given; Summarize and SelectSubsetOfColumns report the names of their spec
\* whatever aliases they are given.
C10_LineageStaysInsideWhenSpecDoes ==
    /\ (Asked /\ last.out.ok /\ NamedInputs(last.type, last.spec) \subseteq Range(last.in))
           => \A i \in DOMAIN last.out.val :
                  last.out.val[i].input_alias # None
                      => last.out.val[i].input_alias \in Range(last.in)
    /\ (Asked /\ last.out.ok /\ last.type \in {"summarize", "select"})
           => /\ last.out = get_unique_constraint_mappings(
                                [type |-> last.type, spec |-> last.spec], <<>>)
              /\ \A i \in DOMAIN last.out.val :
                     last.out.val[i].input_alias # None
                         => last.out.val[i].input_alias
                                \in NamedInputs(last.type, last.spec)
    /\ inside => \A i \in DOMAIN roots : roots[i] # None => roots[i] \in Range(initial_aliases)

\* the second step of a fold: a Summarize that groups by an alias it is given,
\* after a step that changed the alias list
C10_Witness ==
    /\ Asked
    /\ steps = 2
    /\ inside
    /\ last.type = "summarize"
    /\ last.out.ok
    /\ last.in # initial_aliases
    /\ \E i \in DOMAIN last.out.val :
           /\ last.out.val[i].input_alias \in Range(last.in)
           /\ roots[i] \in Range(initial_aliases)

---------------------------------------------------------------------------
(* The instances: construction, and the derivation helpers of Summarize. *)
(* An instance holds a reference to its spec; the spec dict of a Summarize *)
(* is dicts[instance.spec.ref], so that two instances can share one dict. *)

\* d[k] = v
SetItem(d, k, v) == [x \in DOMAIN d \cup {k} |-> IF x = k THEN v ELSE d[x]]

\* copy.copy: a new instance whose attributes are those of the original
copy_shallow(ds, summarization) == [dicts |-> ds, obj |-> summarization]

\* copy.deepcopy: a new instance with a copy of the spec dict and of all it holds
deepcopy(ds, summarization) ==
    [dicts |-> Append(ds, ds[summarization.spec.ref]),
     obj |-> [summarization EXCEPT !.spec = [tag |-> "ref", ref |-> Len(ds) + 1]]]

\* get_col_spec_from_alias is the function of the caller, given as a map
_add_aliases_to_summarization_expr_field(ds, summarization, spec_field, aliases, get_col_spec_from_alias) ==
    LET c == deepcopy(ds, summarization)
        expressions_to_add ==
            [i \in DOMAIN aliases |-> get_col_spec_from_alias[aliases[i]]]
        existing_expressions == DictGet(c.dicts[c.obj.spec.ref], spec_field, <<>>)
        new_expressions == existing_expressions \o expressions_to_add
    IN  [dicts |-> [c.dicts EXCEPT ![c.obj.spec.ref] =
                        SetItem(@, spec_field, new_expressions)],
         obj |-> c.obj]

Summarize_default_group_output_alias_suffix == "_grouped"

Summarize_default_agg_output_alias_suffix == "_agged"

Summarize_get_new_with_aliases_added_to_group_by(ds, self, aliases) ==
    LET default_suffix == Summarize_default_group_output_alias_suffix
        get_col_spec_from_alias ==
            [alias \in Range(aliases) |->
                [input_alias |-> alias, output_alias |-> alias \o default_suffix]]
    IN  _add_aliases_to_summarization_expr_field(
            ds, self, "grouping_expressions", aliases, get_col_spec_from_alias)

Summarize_get_new_with_aliases_added_to_agg_on(ds, self, aliases) ==
    LET default_suffix == Summarize_default_agg_output_alias_suffix
        default_aggregation_fn == DistinctArrayAgg_id
        get_col_spec_from_alias ==
            [alias \in Range(aliases) |->
                [input_alias |-> alias, output_alias |-> alias \o default_suffix,
                 function |-> default_aggregation_fn]]
    IN  _add_aliases_to_summarization_expr_field(
            ds, self, "aggregation_expressions", aliases, get_col_spec_from_alias)

\* the spec of instance o as a value
SpecOf(o) ==
    IF objs[o].spec.tag = "ref" THEN dicts[objs[o].spec.ref] ELSE objs[o].spec

\* the specs of all instances
Snapshot == [o \in DOMAIN objs |-> SpecOf(o)]

\* the specs the instances of a class are constructed with
ConstructSpecs(type) ==
    CASE type = "filter" -> FilterSpecs
      [] type = "order" -> OrderSpecs
      [] type \in {"limit", "offset"} -> CountSpecs
      [] type = "summarize" ->
            {NoneSpec, BareSummarizeDict,
             SummarizeDict(<<GroupingItem("a", "a1", None)>>, <<>>),
             SummarizeDict(<<GroupingItem("a", "a1", None)>>,
                           <<AggregationItem("b", "b2")>>)}
      [] type = "hide" -> {NoneSpec, [tag |-> "set", items |-> {"b"}]}
      [] type = "select" -> {NoneSpec, [tag |-> "list", items |-> <<"a">>]}

TransformTypes == {"filter", "order", "limit", "offset", "summarize", "hide", "select"}

\* the alias lists the helpers are called with
AliasLists == {<<>>, <<"c">>, <<"a", "b">>}

\* type(spec): the instance refers to the dict it was given
Construct ==
    \E type \in TransformTypes : \E spec \in ConstructSpecs(type) :
        LET given == IF spec.tag = "dict"
                     THEN [tag |-> "ref", ref |-> Len(dicts) + 1]
                     ELSE spec
            t == Transform__init__(type, given)
        IN  /\ Len(objs) < MaxObjs
            /\ last' = [op |-> "__init__", type |-> type, spec |-> spec,
                        before |-> Snapshot, out |-> t]
            /\ objs' = IF t.ok THEN Append(objs, t.val) ELSE objs
            /\ dicts' = IF t.ok /\ spec.tag = "dict" THEN Append(dicts, spec.d)
                        ELSE dicts
            /\ UNCHANGED <<rel, rel0, current_aliases, initial_aliases, roots, inside, steps>>

Derive(name, self, arg, new) ==
    /\ Len(objs) < MaxObjs
    /\ last' = [op |-> name, self |-> self, aliases |-> arg, before |-> Snapshot,
                out |-> Ok(Len(objs) + 1)]
    /\ objs' = Append(objs, new.obj)
    /\ dicts' = new.dicts
    /\ UNCHANGED <<rel, rel0, current_aliases, initial_aliases, roots, inside, steps>>

AddToGroupBy ==
    \E self \in DOMAIN objs : \E arg \in AliasLists :
        /\ objs[self].type = "summarize"
        /\ Derive("get_new_with_aliases_added_to_group_by", self, arg,
                  Summarize_get_new_with_aliases_added_to_group_by(
                      dicts, objs[self], arg))

AddToAggOn ==
    \E self \in DOMAIN objs : \E arg \in AliasLists :
        /\ objs[self].type = "summarize"
        /\ Derive("get_new_with_aliases_added_to_agg_on", self, arg,
                  Summarize_get_new_with_aliases_added_to_agg_on(
                      dicts, objs[self], arg))

InitDerive ==
    /\ objs = <<>>
    /\ dicts = <<>>
    /\ last = NoCall
    /\ steps = 0
    /\ rel = Table(0)
    /\ rel0 = Table(0)
    /\ current_aliases = <<>>
    /\ initial_aliases = <<>>
    /\ roots = <<>>
    /\ inside = TRUE

NextDerive ==
    \/ Construct
    \/ AddToGroupBy
    \/ AddToAggOn

SpecDerive == InitDerive /\ [][NextDerive]_vars

---------------------------------------------------------------------------
(* Properties of the instances *)

Derived ==
    last.op \in {"get_new_with_aliases_added_to_group_by",
                 "get_new_with_aliases_added_to_agg_on"}

\* C1: a call of get_new_with_aliases_added_to_group_by or
\* get_new_with_aliases_added_to_agg_on, on an instance or on one derived from
\* it, leaves the spec of every instance there was (the original, and those
\* earlier calls returned) as it was, and returns a new instance with a spec
\* dict of its own: the spec of the original with the new items appended.
C1_DeepCopyIsolation ==
    /\ \A o \in DOMAIN objs : o \in DOMAIN last.before => SpecOf(o) = last.before[o]
    /\ Derived
           => LET new == last.out.val
                  field == IF last.op = "get_new_with_aliases_added_to_group_by"
                           THEN "grouping_expressions"
                           ELSE "aggregation_expressions"
                  old == DictGet(last.before[last.self], field, <<>>)
              IN  /\ new = Len(objs)
                  /\ new \notin DOMAIN last.before
                  /\ \A o \in DOMAIN last.before : objs[o].spec # objs[new].spec
                  /\ Len(SpecOf(new)[field]) = Len(old) + Len(last.aliases)
                  /\ \A i \in DOMAIN old : SpecOf(new)[field][i] = old[i]
                  /\ \A i \in DOMAIN last.aliases :
                         SpecOf(new)[field][Len(old) + i].input_alias = last.aliases[i]

\* a derivation from an instance that was itself derived, with items added
C1_Witness ==
    /\ Derived
    /\ last.aliases # <<>>
    /\ Len(objs) = 3
    /\ last.self = 2
    /\ SpecOf(1) # SpecOf(2)
    /\ SpecOf(2) # SpecOf(3)

\* C6: constructing any transform variant with a null spec raises, and no
\* instance with a null spec exists.
C6_NullSpecFailsAtConstruction ==
    /\ \A o \in DOMAIN objs : objs[o].spec.tag # "None"
    /\ (last.op = "__init__" /\ last.spec.tag = "None")
           => /\ ~last.out.ok
              /\ last.out.err = "ValueError"
              /\ Len(objs) = Len(last.before)
    /\ (last.op = "__init__" /\ last.spec.tag # "None")
           => /\ last.out.ok
              /\ Len(objs) = Len(last.before) + 1

\* a Filter refused for its null spec, after another instance was constructed
C6_Witness ==
    /\ last.op = "__init__"
    /\ last.type = "filter"
    /\ last.spec.tag = "None"
    /\ ~last.out.ok
    /\ Len(objs) = 1

====
